---- MODULE Spec2Model ----
(***************************************************************************)
(* Model of HTMpandaVis:                                                   *)
(*   - HotgymExample/hotgym.py : main(), the record loop that publishes    *)
(*     every step to the pandaServer and waits for the visualisation side  *)
(*     to release it, followed by the alignment of the predictions;        *)
(*   - PandaVis/interaction.py : cInteraction, the key and picking         *)
(*     handlers of the 3D client.                                          *)
(***************************************************************************)
EXTENDS Integers, Sequences, FiniteSets, TLC

(* ---------------------------- bounds ----------------------------------- *)
\* number of records of the CSV file in the specification of the gated loop
MaxRecords == 3
\* number of records of the CSV file in the specification of the alignment
MaxAlignRecords == 6
\* number of one-step requests the visualisation side issues
MaxRequests == 3
\* size of the 3D scene the picking handler works on
NumLayers == 2
NumColumns == 2
CellsPerColumn == 2

(* ------------------------ program constants ---------------------------- *)
\* Predictor(steps=[1, 5]); predictions = {1: [], 5: []}
Steps == <<1, 5>>
StepSet == {Steps[k] : k \in 1..Len(Steps)}
\* float('nan'), and a number v
NaN == <<"nan">>
Num(v) == <<"num", v>>
\* the keys SetupKeys registers
KeyNames == {"arrow_left", "arrow_right", "arrow_up", "arrow_down",
             "a", "d", "w", "s", "shift", "control", "space"}

VARIABLES
    \* ---- hotgym.py, main thread ----
    nrec,          \* len(records)
    count,         \* index of the record being processed (enumerate)
    pc,            \* position of the main thread
    inputs,        \* inputs
    predictions,   \* predictions[n], n in {1, 5}
    serverData,    \* record whose state pandaServer.serverData holds (0: none)
    shiftN,        \* position in predictions.items() of the shift loop
    shiftX,        \* x of "for x in range(n_steps)"
    \* ---- pandaServer, shared with the server thread ----
    runInLoop,
    runOneStep,
    \* ---- history of the run (not program state) ----
    log,           \* calls made by main, <<operation, record>>
    appended,      \* appended[n][i]: value appended for horizon n at record i-1
    published,     \* number of calls of NewStateDataReady
    passed,        \* number of records that left the wait loop
    requests,      \* number of times the server thread set runOneStep
    sawFlag,       \* the last evaluation of the wait condition saw a flag set
    \* ---- interaction.py, cInteraction and its gui ----
    keys,
    speedBoost,
    guiSpeedBoost, \* <<last argument of gui.onSpeedBoostChanged>>, <<>>: no call
    focusedCell,
    focusedPath,
    guiFocusedCell,
    guiFocusedPath,
    guiColumnID,
    guiCellID,
    cellFocus,     \* per cell: last of setFocus (TRUE) / resetFocus (FALSE)
    rotateCamera,  \* base.rotateCamera
    \* ---- history of the events (not program state) ----
    spaceOdd,      \* an odd number of presses of space happened
    otherToggled,  \* an event of another key changed speedBoost
    prevClicked,   \* the cell of the click on a cell before that one
    lastClicked    \* the cell of the most recent click on a cell (None: no click)

mainVars == <<nrec, count, pc, inputs, predictions, serverData, shiftN, shiftX,
              log, appended, published, passed, sawFlag>>
serverVars == <<runInLoop, runOneStep, requests>>
guiVars == <<keys, speedBoost, guiSpeedBoost, focusedCell, focusedPath,
             guiFocusedCell, guiFocusedPath, guiColumnID, guiCellID,
             cellFocus, rotateCamera, spaceOdd, otherToggled, prevClicked,
             lastClicked>>
vars == <<mainVars, serverVars, guiVars>>

(* ======================= hotgym.py : main ============================== *)

\* list.insert(0, v)
InsertFront(s, v) == <<v>> \o s
PopFront(s) == Tail(s)
\* list.pop(): removes the last element (IndexError on an empty list)
PopBack(s) == SubSeq(s, 1, Len(s) - 1)

\* np.argmax(pdf[n]) * predictor_resolution for record c: a number owned by
\* the library; it is represented by a number that identifies (record, n)
Argmax(c, n) == Num(10 * c + n)

\* the outcomes of "if pdf[n]: ... else: nan" for record c
PdfOutcomes(c) == [StepSet -> BOOLEAN]
Prediction(c, n, nonEmpty) == IF nonEmpty THEN Argmax(c, n) ELSE NaN

InitMain(maxRec) ==
    /\ nrec \in 1..maxRec
    /\ count = 0
    /\ pc = "for"
    /\ inputs = <<>>
    /\ predictions = [n \in StepSet |-> <<>>]
    /\ serverData = 0
    /\ shiftN = 1
    /\ shiftX = 0
    /\ log = <<>>
    /\ appended = [n \in StepSet |-> <<>>]
    /\ published = 0
    /\ passed = 0
    /\ sawFlag = FALSE

InitServer ==
    /\ runInLoop = FALSE
    /\ runOneStep = FALSE
    /\ requests = 0

Goto(from, to) == pc = from /\ pc' = to
Call(op) == log' = Append(log, <<op, count>>)

\* for count, record in enumerate(records):
ForRecord ==
    /\ pc = "for"
    /\ pc' = IF count < nrec THEN "parse" ELSE "stats"
    /\ UNCHANGED <<nrec, count, inputs, predictions, serverData, shiftN, shiftX,
                   log, appended, published, passed, sawFlag>>
    /\ UNCHANGED <<serverVars, guiVars>>

\* strptime, float(record[1]), inputs.append(consumption), the encoders
ParseRecord ==
    /\ Goto("parse", "spCompute")
    /\ inputs' = Append(inputs, count + 1)
    /\ UNCHANGED <<nrec, count, predictions, serverData, shiftN, shiftX,
                   log, appended, published, passed, sawFlag>>
    /\ UNCHANGED <<serverVars, guiVars>>

SpCompute ==
    /\ Goto("spCompute", "activateDendrites")
    /\ Call("sp.compute")
    /\ UNCHANGED <<nrec, count, inputs, predictions, serverData, shiftN, shiftX,
                   appended, published, passed, sawFlag>>
    /\ UNCHANGED <<serverVars, guiVars>>

ActivateDendrites ==
    /\ Goto("activateDendrites", "fill")
    /\ Call("tm.activateDendrites")
    /\ UNCHANGED <<nrec, count, inputs, predictions, serverData, shiftN, shiftX,
                   appended, published, passed, sawFlag>>
    /\ UNCHANGED <<serverVars, guiVars>>

\* fill up values; pandaServer.serverData = serverData
FillServerData ==
    /\ Goto("fill", "publish")
    /\ serverData' = count + 1
    /\ Call("fill")
    /\ UNCHANGED <<nrec, count, inputs, predictions, shiftN, shiftX,
                   appended, published, passed, sawFlag>>
    /\ UNCHANGED <<serverVars, guiVars>>

NewStateDataReady ==
    /\ Goto("publish", "wait")
    /\ published' = published + 1
    /\ Call("NewStateDataReady")
    /\ sawFlag' = FALSE
    /\ UNCHANGED <<nrec, count, inputs, predictions, serverData, shiftN, shiftX,
                   appended, passed>>
    /\ UNCHANGED <<serverVars, guiVars>>

\* while not pandaServer.runInLoop and not pandaServer.runOneStep: pass
\*   first operand: a set runInLoop ends the loop without reading runOneStep
WaitReadRunInLoop ==
    /\ pc = "wait"
    /\ pc' = IF runInLoop THEN "reset" ELSE "wait2"
    /\ sawFlag' = runInLoop
    /\ passed' = IF runInLoop THEN passed + 1 ELSE passed
    /\ UNCHANGED <<nrec, count, inputs, predictions, serverData, shiftN, shiftX,
                   log, appended, published>>
    /\ UNCHANGED <<serverVars, guiVars>>

WaitIgnoresRunOneStep ==
    /\ pc = "wait2"
    /\ pc' = "reset"
    /\ sawFlag' = runOneStep
    /\ passed' = passed + 1
    /\ UNCHANGED <<nrec, count, inputs, predictions, serverData, shiftN, shiftX,
                   log, appended, published>>
    /\ UNCHANGED <<serverVars, guiVars>>

WaitNeedsBothFlags ==
    /\ pc = "wait2"
    /\ pc' = IF runOneStep /\ runInLoop THEN "reset" ELSE "wait"
    /\ sawFlag' = (runOneStep /\ runInLoop)
    /\ passed' = IF runOneStep /\ runInLoop THEN passed + 1 ELSE passed
    /\ UNCHANGED <<nrec, count, inputs, predictions, serverData, shiftN, shiftX,
                   log, appended, published>>
    /\ UNCHANGED <<serverVars, guiVars>>

\*   second operand: a set runOneStep ends the loop, otherwise spin
WaitReadRunOneStep ==
    /\ pc = "wait2"
    /\ pc' = IF runOneStep THEN "reset" ELSE "wait"
    /\ sawFlag' = runOneStep
    /\ passed' = IF runOneStep THEN passed + 1 ELSE passed
    /\ UNCHANGED <<nrec, count, inputs, predictions, serverData, shiftN, shiftX,
                   log, appended, published>>
    /\ UNCHANGED <<serverVars, guiVars>>

\* pandaServer.runOneStep = False
ResetRunOneStep ==
    /\ Goto("reset", "activateCells")
    /\ runOneStep' = FALSE
    /\ Call("reset")
    /\ UNCHANGED <<nrec, count, inputs, predictions, serverData, shiftN, shiftX,
                   appended, published, passed, sawFlag>>
    /\ UNCHANGED <<runInLoop, requests, guiVars>>

ActivateCells ==
    /\ Goto("activateCells", "infer")
    /\ Call("tm.activateCells")
    /\ UNCHANGED <<nrec, count, inputs, predictions, serverData, shiftN, shiftX,
                   appended, published, passed, sawFlag>>
    /\ UNCHANGED <<serverVars, guiVars>>

\* pdf = predictor.infer(...); for n in (1, 5): predictions[n].append(...)
Infer ==
    /\ Goto("infer", "anomaly")
    /\ \E pdf \in PdfOutcomes(count) :
          /\ predictions' = [n \in StepSet |->
                Append(predictions[n], Prediction(count, n, pdf[n]))]
          /\ appended' = [n \in StepSet |->
                Append(appended[n], Prediction(count, n, pdf[n]))]
    /\ Call("predictor.infer")
    /\ UNCHANGED <<nrec, count, inputs, serverData, shiftN, shiftX,
                   published, passed, sawFlag>>
    /\ UNCHANGED <<serverVars, guiVars>>

ComputeAnomaly ==
    /\ Goto("anomaly", "learn")
    /\ Call("anomaly")
    /\ UNCHANGED <<nrec, count, inputs, predictions, serverData, shiftN, shiftX,
                   appended, published, passed, sawFlag>>
    /\ UNCHANGED <<serverVars, guiVars>>

LearnSkipsRecord ==
    /\ Goto("learn", "for")
    /\ Call("predictor.learn")
    /\ count' = count + 2
    /\ UNCHANGED <<nrec, inputs, predictions, serverData, shiftN, shiftX,
                   appended, published, passed, sawFlag>>
    /\ UNCHANGED <<serverVars, guiVars>>

\* predictor.learn(count, ...); end of the loop body
Learn ==
    /\ Goto("learn", "for")
    /\ Call("predictor.learn")
    /\ count' = count + 1
    /\ UNCHANGED <<nrec, inputs, predictions, serverData, shiftN, shiftX,
                   appended, published, passed, sawFlag>>
    /\ UNCHANGED <<serverVars, guiVars>>

\* Print information & statistics
PrintStats ==
    /\ Goto("stats", "shift")
    /\ shiftN' = 1
    /\ shiftX' = 0
    /\ UNCHANGED <<nrec, count, inputs, predictions, serverData,
                   log, appended, published, passed, sawFlag>>
    /\ UNCHANGED <<serverVars, guiVars>>

\* for n_steps, pred_list in predictions.items():
\*     for x in range(n_steps): pred_list.insert(0, nan); pred_list.pop()
ShiftPredictions ==
    /\ pc = "shift"
    /\ IF shiftN > Len(Steps)
         THEN /\ pc' = "accuracy"
              /\ UNCHANGED <<predictions, shiftN, shiftX>>
         ELSE IF shiftX >= Steps[shiftN]
         THEN /\ shiftN' = shiftN + 1
              /\ shiftX' = 0
              /\ UNCHANGED <<pc, predictions>>
         ELSE /\ predictions' = [predictions EXCEPT ![Steps[shiftN]] =
                                   PopBack(InsertFront(@, NaN))]
              /\ shiftX' = shiftX + 1
              /\ UNCHANGED <<pc, shiftN>>
    /\ UNCHANGED <<nrec, count, inputs, serverData,
                   log, appended, published, passed, sawFlag>>
    /\ UNCHANGED <<serverVars, guiVars>>

\* accuracy_samples[n]: the entries of predictions[n] that are not nan
AccuracySamples(n) ==
    Cardinality({i \in 1..Len(predictions[n]) : predictions[n][i] # NaN})

\* accuracy[n] = (accuracy[n] / accuracy_samples[n]) ** .5 raises
\* ZeroDivisionError when no sample was counted
Accuracy ==
    /\ pc = "accuracy"
    /\ pc' = IF \E n \in StepSet : AccuracySamples(n) = 0
               THEN "ZeroDivisionError" ELSE "return"
    /\ UNCHANGED <<nrec, count, inputs, predictions, serverData, shiftN, shiftX,
                   log, appended, published, passed, sawFlag>>
    /\ UNCHANGED <<serverVars, guiVars>>

(* ---------------- the server thread of pandaServer --------------------- *)
\* the visualisation side asks for one step
ServerStepRequest ==
    /\ requests < MaxRequests
    /\ runOneStep' = TRUE
    /\ requests' = requests + 1
    /\ UNCHANGED <<runInLoop, mainVars, guiVars>>

\* the visualisation side asks to run in a loop
ServerRunRequest ==
    /\ ~runInLoop
    /\ runInLoop' = TRUE
    /\ UNCHANGED <<runOneStep, requests, mainVars, guiVars>>

(* ==================== interaction.py : cInteraction ==================== *)
None == <<>>

\* base.HTMObjects[...].layers[...]: the scene the client has built
HTMObjectNames == {"HTM1"}
LayerNames == 1..NumLayers
Paths == HTMObjectNames \X LayerNames

\* the column and cell objects of a layer
Column(path, c) == <<path, c>>
Cell(path, c, i) == <<path, c, i>>
Cells == {Cell(p, c, i) : p \in Paths, c \in 0..(NumColumns - 1),
                          i \in 0..(CellsPerColumn - 1)}

\* Layer.corticalColumns and corticalColumn.cells: python lists (index from 0)
corticalColumns(path) == [k \in 1..NumColumns |-> Column(path, k - 1)]
cells(column) == [k \in 1..CellsPerColumn |-> Cell(column[1], column[2], k - 1)]
\* cell.column
ColumnOf(cell) == Column(cell[1], cell[2])

\* list[i] and list.index(x), both counting from 0
At(list, i) == list[i + 1]
Index(list, x) ==
    (CHOOSE k \in 1..Len(list) :
        list[k] = x /\ \A j \in 1..(k - 1) : list[j] # x) - 1

\* node tags: getTag returns the string of a number, "" when the tag is unset
NoTag == <<>>
Tag(i) == <<i>>
\* int(tag)
int(tag) == tag[1]

\* what a click can pick: a node named "cell", "basement" or anything else,
\* with its "clickable" tag and the "id" tag of its parent
PickedObjects ==
    [name : {"cell", "basement", "column"},
     path : Paths,
     clickable : {Tag(i) : i \in 0..(CellsPerColumn - 1)},
     parentTag : {NoTag} \cup {Tag(c) : c \in 0..(NumColumns - 1)}]

InitGui ==
    /\ keys = [k \in KeyNames |-> 0]
    /\ speedBoost = FALSE
    /\ guiSpeedBoost = None
    /\ focusedCell = None
    /\ focusedPath = None
    /\ guiFocusedCell = None
    /\ guiFocusedPath = None
    /\ guiColumnID = 0
    /\ guiCellID = 0
    /\ cellFocus = [c \in Cells |-> FALSE]
    /\ rotateCamera = FALSE
    /\ spaceOdd = FALSE
    /\ otherToggled = FALSE
    /\ prevClicked = None
    /\ lastClicked = None

focusVars == <<focusedCell, focusedPath, guiFocusedCell, guiFocusedPath,
               guiColumnID, guiCellID, cellFocus, prevClicked, lastClicked>>
keyVars == <<keys, speedBoost, guiSpeedBoost, spaceOdd, otherToggled>>

\* onKey(key, value)
onKey(key, value) ==
    LET newKeys == [keys EXCEPT ![key] = value]
        toggle == newKeys["space"] # 0
    IN  /\ keys' = newKeys
        /\ speedBoost' = IF toggle THEN ~speedBoost ELSE speedBoost
        /\ guiSpeedBoost' = IF toggle THEN <<~speedBoost>> ELSE guiSpeedBoost
        /\ spaceOdd' = IF key = "space" /\ value = 1 THEN ~spaceOdd ELSE spaceOdd
        /\ otherToggled' = (otherToggled \/ (key # "space" /\ toggle))
        /\ UNCHANGED <<focusVars, rotateCamera, mainVars, serverVars>>

\* the events SetupKeys accepts: "<key>", "shift-<key>" (value 1), "<key>-up"
KeyEvent == \E key \in KeyNames, value \in {0, 1} : onKey(key, value)

RefocusNoReset(focus, old, new) == [focus EXCEPT ![new] = TRUE]

\* cell.resetFocus() on the previous cell, then cell.setFocus() on the new one
Refocus(focus, old, new) ==
    LET afterReset == IF old # None THEN [focus EXCEPT ![old] = FALSE] ELSE focus
    IN  [afterReset EXCEPT ![new] = TRUE]

\* HandlePickedObject(obj)
HandlePickedObject(obj) ==
    IF obj.parentTag = NoTag THEN
        \* "Parent is not clickable!"
        UNCHANGED focusVars
    ELSE IF obj.name = "cell" THEN
        LET Layer == corticalColumns(obj.path)
            thisId == int(obj.clickable)
            parentId == int(obj.parentTag)
            newCellFocus == At(cells(At(Layer, parentId)), thisId)
            columnID == Index(Layer, ColumnOf(newCellFocus))
        IN  /\ focusedPath' = obj.path
            /\ cellFocus' = Refocus(cellFocus, focusedCell, newCellFocus)
            /\ focusedCell' = newCellFocus
            /\ guiFocusedCell' = newCellFocus
            /\ guiFocusedPath' = obj.path
            /\ guiColumnID' = columnID
            /\ guiCellID' = Index(cells(At(Layer, columnID)), newCellFocus)
            /\ prevClicked' = lastClicked
            /\ lastClicked' = Cell(obj.path, parentId, thisId)
    ELSE
        \* "basement": self.testRoutine() is not a method of cInteraction;
        \* any other name: nothing to do
        UNCHANGED focusVars

NoHit == {[name |-> "noEntry"], [name |-> "empty"]}

\* onClickObject(): hit is the closest collision entry's "clickable" node,
\* "noEntry" when the ray hit nothing, "empty" when the node has no such tag
onClickObject(hit) ==
    IF hit \in NoHit
        THEN UNCHANGED focusVars
        ELSE HandlePickedObject(hit)

\* onMouseEvent(event, press)
onMouseEvent(event, press, hit) ==
    /\ IF event = "right"
         THEN rotateCamera' = press /\ UNCHANGED focusVars
         ELSE IF event = "left" /\ press
         THEN onClickObject(hit) /\ UNCHANGED rotateCamera
         ELSE UNCHANGED <<focusVars, rotateCamera>>
    /\ UNCHANGED <<keyVars, mainVars, serverVars>>

\* "mouse1", "mouse1-up", "mouse3", "mouse3-up"
MouseEvent ==
    \E event \in {"left", "right"}, press \in BOOLEAN,
       hit \in NoHit \cup PickedObjects :
        onMouseEvent(event, press, hit)

(* ========================= specifications ============================== *)
Init == InitMain(MaxRecords) /\ InitServer /\ InitGui

\* a step of the main thread
MainStep ==
    \/ ForRecord \/ ParseRecord \/ SpCompute \/ ActivateDendrites
    \/ FillServerData \/ NewStateDataReady
    \/ WaitReadRunInLoop \/ WaitReadRunOneStep \/ ResetRunOneStep
    \/ ActivateCells \/ Infer \/ ComputeAnomaly \/ Learn
    \/ PrintStats \/ ShiftPredictions \/ Accuracy

\* main and the server thread of pandaServer
Next == MainStep \/ ServerStepRequest \/ ServerRunRequest
Spec == Init /\ [][Next]_vars

\* the main thread is a running python thread: it keeps taking steps
FairSpec == Spec /\ WF_vars(MainStep)

\* the whole run of main on a longer file, released by a run-in-loop request
InitAlign == InitMain(MaxAlignRecords) /\ InitServer /\ InitGui
NextAlign == MainStep \/ ServerRunRequest
SpecAlign == InitAlign /\ [][NextAlign]_vars

\* the client process: no record loop runs in it
InitClient == InitMain(1) /\ InitServer /\ InitGui

\* the key handler of the client
NextKeys == KeyEvent
SpecKeys == InitClient /\ [][NextKeys]_vars

\* the mouse handler of the client
NextClick == MouseEvent
SpecClick == InitClient /\ [][NextClick]_vars

(* ============================ properties =============================== *)
\* the positions of main between the wait loop and the end of the loop body
AfterWait == {"reset", "activateCells", "infer", "anomaly", "learn"}
BeforeWait == {"parse", "spCompute", "activateDendrites", "fill", "publish"}
Waiting == {"wait", "wait2"}
AfterLoop == {"stats", "shift", "accuracy", "return", "ZeroDivisionError"}

\* the calls main makes for record r (counted from 0), in program order
RecordCalls(r) ==
    << <<"sp.compute", r>>, <<"tm.activateDendrites", r>>, <<"fill", r>>,
       <<"NewStateDataReady", r>>, <<"reset", r>>, <<"tm.activateCells", r>>,
       <<"predictor.infer", r>>, <<"anomaly", r>>, <<"predictor.learn", r>> >>
CallsPerRecord == Len(RecordCalls(0))
\* the calls of a run over n records
ExpectedLog(n) ==
    [k \in 1..(n * CallsPerRecord) |->
        RecordCalls((k - 1) \div CallsPerRecord)[((k - 1) % CallsPerRecord) + 1]]
IsPrefix(s, t) == Len(s) <= Len(t) /\ \A k \in 1..Len(s) : s[k] = t[k]
CountOf(op) == Cardinality({k \in 1..Len(log) : log[k][1] = op})

\* C1: step gating. After NewStateDataReady main reaches tm.activateCells for
\* a record only after an evaluation of the wait condition that saw runInLoop
\* or runOneStep set, and the call just before tm.activateCells is the reset
\* of runOneStep for that record; while runInLoop is False the number of
\* records that passed the wait never exceeds the number of times the server
\* thread set runOneStep.
C1_StepGating ==
    /\ pc \in AfterWait => sawFlag /\ passed = count + 1
    /\ pc \in BeforeWait \cup Waiting => passed = count
    /\ \A k \in 1..Len(log) :
          log[k][1] = "tm.activateCells" =>
              /\ k > 2
              /\ log[k - 1] = <<"reset", log[k][2]>>
              /\ log[k - 2] = <<"NewStateDataReady", log[k][2]>>
    /\ ~runInLoop => passed <= requests
C1_Witness == pc = "activateCells" /\ ~runInLoop /\ passed = 2 /\ requests = 3

\* C2: publication order. The calls of main are, record after record in file
\* order, sp.compute, tm.activateDendrites, the filling of serverData, one
\* NewStateDataReady, (the wait,) tm.activateCells, predictor.infer, the
\* anomaly computation and predictor.learn; the published data is that of the
\* record being processed, and when the loop has ended NewStateDataReady was
\* called once per record.
C2_PublicationOrder ==
    /\ IsPrefix(log, ExpectedLog(nrec))
    /\ published = CountOf("NewStateDataReady")
    /\ pc \in Waiting \cup AfterWait => serverData = count + 1 /\ published = count + 1
    /\ pc \in AfterLoop => log = ExpectedLog(nrec) /\ published = nrec
C2_Witness == pc = "stats" /\ nrec >= 2 /\ published = nrec

\* C3: single focus. After a click on a cell the cell clicked last is the one
\* focused cell: its last focus call is setFocus, every other cell (so every
\* cell clicked before) is not focused, focusedCell, gui.focusedCell and
\* the cell at gui.columnID / gui.cellID of the focused layer are that cell,
\* and focusedPath equals gui.focusedPath.
C3_SingleFocus ==
    lastClicked # None =>
        /\ focusedCell = lastClicked
        /\ guiFocusedCell = lastClicked
        /\ cellFocus[lastClicked]
        /\ \A c \in Cells \ {lastClicked} : ~cellFocus[c]
        /\ focusedPath = guiFocusedPath
        /\ focusedPath = lastClicked[1]
        /\ At(cells(At(corticalColumns(guiFocusedPath), guiColumnID)), guiCellID)
              = lastClicked
C3_Witness ==
    /\ prevClicked # None
    /\ prevClicked # lastClicked
    /\ prevClicked[1] # lastClicked[1]
    /\ cellFocus[lastClicked]
    /\ ~cellFocus[prevClicked]
    /\ guiColumnID = 1
    /\ guiCellID = 1
C3_WitnessSameCell ==
    /\ prevClicked # None
    /\ prevClicked = lastClicked
    /\ cellFocus[lastClicked]

\* C4: prediction alignment. After the shift, for each horizon n,
\* predictions[n] is as long as inputs, its first min(n, L) entries are NaN,
\* and the entry of every later index i is the value appended for horizon n
\* while record i - n was processed.
C4_Alignment ==
    pc \in {"accuracy", "return", "ZeroDivisionError"} =>
        \A n \in StepSet :
            /\ Len(inputs) = nrec
            /\ Len(predictions[n]) = Len(inputs)
            /\ \A j \in 1..Len(inputs) :
                  IF j <= n THEN predictions[n][j] = NaN
                            ELSE predictions[n][j] = appended[n][j - n]
C4_Witness ==
    /\ pc = "return"
    /\ nrec = 6
    /\ predictions[5][6] = Argmax(0, 5)
    /\ predictions[1][2] = Argmax(0, 1)

\* C5: one-step requests are honoured one for one. While runInLoop is False,
\* whenever main is spinning in the wait with no request pending, every
\* request made so far released exactly one record.
C5_OneForOne ==
    (~runInLoop /\ pc \in Waiting /\ ~runOneStep) => passed = requests

\* C6: progress. If during every wait a flag is eventually set, main makes
\* the calls of every record once, in file order, and leaves the loop; while
\* no flag was ever set no record passes the wait and tm.activateCells is not
\* called, and if none is ever set main stays in the wait of the first record.
C6_Progress ==
    /\ ([](pc \in Waiting => <>(runInLoop \/ runOneStep)))
          => <>(pc = "stats" /\ log = ExpectedLog(nrec) /\ passed = nrec)
    /\ []((requests = 0 /\ ~runInLoop) =>
             (passed = 0 /\ count = 0 /\ CountOf("tm.activateCells") = 0))
    /\ ([](requests = 0 /\ ~runInLoop)) => <>[](pc \in Waiting /\ count = 0)
C6_Witness == pc = "stats" /\ ~runInLoop /\ nrec >= 2 /\ passed = nrec

\* C7: speed boost toggle. speedBoost changes exactly once per press of
\* space, an event of another key does not change it, and the value the gui
\* was told last is speedBoost.
C7_SpaceToggle ==
    /\ speedBoost = spaceOdd
    /\ ~otherToggled
    /\ guiSpeedBoost # <<>> => guiSpeedBoost = <<speedBoost>>

====
